---- MODULE Spec2Model ----
(***************************************************************************)
(* Model of MealCostBot (src/tele-bot.py): one process-wide meal record,   *)
(* a per-peer conversation state kept by the ConversationHandler built in  *)
(* setup_bot, and the "Meal Costs" worksheet written by                    *)
(* sync_to_google_sheets.                                                  *)
(*                                                                         *)
(* A message text is a sequence of one-character strings, so strip(),      *)
(* lower() and float() are computed on the characters.  Money is held in   *)
(* cents.  The bill texts of the model are integers and at most 3          *)
(* participants are ever present; on that domain total_bill / n is never   *)
(* half a cent away from a cent, so round(total_bill / n, 2) is the        *)
(* nearest cent of the exact quotient.  Every update arrives on one day,   *)
(* so strftime("%Y-%m-%d") of datetime.now() is one string.                *)
(*                                                                         *)
(* Compound values (a dict item, an update, a reply, a worksheet row) are  *)
(* tuples read through accessors, not records with several fields.         *)
(***************************************************************************)
EXTENDS Integers, Sequences, FiniteSets, TLC

----------------------------------------------------------------------------
(* Bounds of the model *)

\* largest number of data rows the model lets the worksheet hold
MaxRows == 1

Peers == {1, 2}

----------------------------------------------------------------------------
(* Conversation states (line 18) and ConversationHandler.END *)

WAITING_FOR_PARTICIPANTS == "WAITING_FOR_PARTICIPANTS"
WAITING_FOR_BILL == "WAITING_FOR_BILL"
REMOVING_PARTICIPANT == "REMOVING_PARTICIPANT"
WAITING_FOR_PURCHASER_INFO == "WAITING_FOR_PURCHASER_INFO"
END == "END"

----------------------------------------------------------------------------
(* Inputs delivered by the transport *)

Commands == {"start", "start_meal", "remove", "list", "done", "cancel", "help"}

\* texts sent while the purchaser's name is awaited
PurchaserTexts == { <<" ", "S">> }
\* texts sent while participants are collected or removed
NameTexts == { <<"A">>, <<"a", " ">>, <<"B">> }
\* texts sent while the bill is awaited
BillTexts == { <<"2">>, <<" ", "-", "1">>, <<"A">>, <<"1", "-">> }
\* three names that differ in more than case, for a split among three
SplitNameTexts == { <<"A">>, <<"B">>, <<"C">> }
SplitBillTexts == { <<"2">>, <<"-", "1">>, <<"B">> }
\* datetime.now().strftime("%Y-%m-%d")
Days == { "2026-11-01" }

----------------------------------------------------------------------------
(* str.strip, str.lower, float, ", ".join *)

IsSpace(c) == c \in {" ", "\t", "\n"}

RECURSIVE LStrip(_)
LStrip(s) ==
    IF s = <<>> THEN <<>>
    ELSE IF IsSpace(Head(s)) THEN LStrip(Tail(s)) ELSE s

RECURSIVE RStrip(_)
RStrip(s) ==
    IF s = <<>> THEN <<>>
    ELSE IF IsSpace(s[Len(s)]) THEN RStrip(SubSeq(s, 1, Len(s) - 1)) ELSE s

\* text.strip()
Strip(s) == RStrip(LStrip(s))

LowerChar(c) ==
    CASE c = "A" -> "a"
      [] c = "B" -> "b"
      [] c = "C" -> "c"
      [] c = "S" -> "s"
      [] OTHER -> c

\* name.lower()
Lower(s) == [i \in 1..Len(s) |-> LowerChar(s[i])]

IsDigit(c) == c \in {"0", "1", "2", "3", "4", "5", "6", "7", "8", "9"}

DigitVal(c) ==
    CASE c = "0" -> 0 [] c = "1" -> 1 [] c = "2" -> 2 [] c = "3" -> 3
      [] c = "4" -> 4 [] c = "5" -> 5 [] c = "6" -> 6 [] c = "7" -> 7
      [] c = "8" -> 8 [] c = "9" -> 9

RECURSIVE DigitsVal(_)
DigitsVal(s) ==
    IF s = <<>> THEN 0
    ELSE 10 * DigitsVal(SubSeq(s, 1, Len(s) - 1)) + DigitVal(s[Len(s)])

AllDigits(s) == s # <<>> /\ \A i \in 1..Len(s) : IsDigit(s[i])

\* a parse that skips the characters that are no digits
ParseFloatDigitsOnly(s) ==
    LET body == SelectSeq(s, LAMBDA c : IsDigit(c))
    IN  IF body # <<>>
        THEN <<TRUE, 100 * DigitsVal(body)>>
        ELSE <<FALSE, 0>>

\* float(text) on texts of spaces, letters, digits and signs: an optional
\* sign followed by digits, surrounding whitespace ignored; anything else
\* raises ValueError.  The result is <<parsed, value in cents>>.
ParseFloat(s) ==
    LET t == Strip(s)
        signed == t # <<>> /\ Head(t) \in {"-", "+"}
        body == IF signed THEN Tail(t) ELSE t
    IN  IF AllDigits(body)
        THEN <<TRUE, (IF signed /\ Head(t) = "-" THEN -1 ELSE 1)
                     * 100 * DigitsVal(body)>>
        ELSE <<FALSE, 0>>

RECURSIVE Join(_)
\* ", ".join(names)
Join(names) ==
    IF names = <<>> THEN <<>>
    ELSE IF Len(names) = 1 THEN names[1]
    ELSE names[1] \o <<",", " ">> \o Join(Tail(names))

\* round(total_bill / num_participants, 2), in cents: the nearest cent,
\* a tie going to the even cent
Round2(total, n) ==
    LET q == total \div n
        r == total % n
    IN  IF 2 * r < n THEN q
        ELSE IF 2 * r > n THEN q + 1
        ELSE IF q % 2 = 0 THEN q ELSE q + 1

----------------------------------------------------------------------------
(* State *)

VARIABLES
    conv,                       \* ConversationHandler's state of each peer
    current_meal_participants,  \* ordered dict: a sequence of <<name, share>>
    current_meal_total_bill,
    current_meal_date,
    current_meal_purchaser,
    sheet,                      \* <<the "Meal Costs" worksheet exists, its rows>>
    turn                        \* the update handled last and what it did

vars == <<conv, current_meal_participants, current_meal_total_bill,
          current_meal_date, current_meal_purchaser, sheet, turn>>

session == <<current_meal_participants, current_meal_total_bill,
             current_meal_date, current_meal_purchaser>>

\* a dict item
Item(name, share) == <<name, share>>
NameOf(item) == item[1]
ShareOf(item) == item[2]

\* list(current_meal_participants.keys())
Keys(d) == [i \in 1..Len(d) |-> NameOf(d[i])]

HasKey(d, k) == \E i \in 1..Len(d) : NameOf(d[i]) = k

RECURSIVE DelKey(_, _)
\* del d[k]
DelKey(d, k) ==
    IF d = <<>> THEN <<>>
    ELSE IF NameOf(Head(d)) = k THEN Tail(d)
    ELSE <<Head(d)>> \o DelKey(Tail(d), k)

\* d[k] = v
SetKey(d, k, v) ==
    IF HasKey(d, k)
    THEN [i \in 1..Len(d) |-> IF NameOf(d[i]) = k THEN Item(k, v) ELSE d[i]]
    ELSE Append(d, Item(k, v))

\* the worksheet
Sheet(exists, rows) == <<exists, rows>>
SheetExists(s) == s[1]
SheetRows(s) == s[2]

\* a row of the worksheet is the list of its cells
HeaderRow ==
    <<"Date", "Purchaser Name", "Total Bill", "Participants", "Individual Share">>

\* an update: a command with its name, or a text message
Cmd(c) == <<"command", c>>
Text(t) == <<"text", t>>
IsText(input) == input[1] = "text"
IsCommand(input, c) == input[1] = "command" /\ input[2] = c
TextOf(input) == input[2]

----------------------------------------------------------------------------
(* What a handler does besides changing the meal record: replies and the   *)
(* ledger call, in the order made                                          *)

Eff(e, kind, name, names, shares, total, keyboard) ==
    <<e, kind, name, names, shares, total, keyboard>>
EffOf(x) == x[1]
KindOf(x) == x[2]
EffName(x) == x[3]
EffNames(x) == x[4]
EffShares(x) == x[5]
EffTotal(x) == x[6]
EffKeyboard(x) == x[7]

\* update.message.reply_text(...)
Reply(kind, name, names) == Eff("reply", kind, name, names, <<>>, 0, <<>>)

\* the update input of peer p, the handler that took it ("none": no
\* handler), what the handler did, and the exception it ended with
Turn(p, input, handler, effects, raised) == <<p, input, handler, effects, raised>>
PeerOf(t) == t[1]
InputOf(t) == t[2]
HandlerOf(t) == t[3]
EffectsOf(t) == t[4]
RaisedOf(t) == t[5]

Init ==
    /\ conv = [p \in Peers |-> END]
    /\ current_meal_participants = <<>>
    /\ current_meal_total_bill = 0
    /\ current_meal_date \in Days
    /\ current_meal_purchaser = [name |-> <<>>, contact |-> <<>>, additional_info |-> <<>>]
    /\ sheet = Sheet(FALSE, <<>>)
    /\ turn = Turn(0, Cmd("none"), "none", <<>>, "none")

----------------------------------------------------------------------------
(* setup_bot: the ConversationHandler's routing of an update.  With no     *)
(* conversation for the peer only the entry points are tried; inside a     *)
(* conversation the handlers of the current state are tried, then the      *)
(* fallbacks; allow_reentry is left False, so entry points are not tried   *)
(* inside a conversation.                                                  *)

\* the routing of a ConversationHandler built with allow_reentry=True: the
\* entry points are tried inside a conversation too
RouteReentry(state, input) ==
    IF IsCommand(input, "start") THEN "start"
    ELSE IF IsCommand(input, "start_meal") THEN "start_meal"
    ELSE CASE state = END -> "none"
           [] state = WAITING_FOR_PURCHASER_INFO ->
                 IF IsText(input) THEN "collect_purchaser_name"
                 ELSE IF IsCommand(input, "cancel") THEN "cancel"
                 ELSE "none"
           [] state = WAITING_FOR_PARTICIPANTS ->
                 IF IsText(input) THEN "add_participant"
                 ELSE IF IsCommand(input, "remove") THEN "remove_participant"
                 ELSE IF IsCommand(input, "list") THEN "list_participants"
                 ELSE IF IsCommand(input, "done") THEN "finish_participants"
                 ELSE IF IsCommand(input, "cancel") THEN "cancel"
                 ELSE "none"
           [] state = REMOVING_PARTICIPANT ->
                 IF IsText(input) THEN "confirm_participant_removal"
                 ELSE IF IsCommand(input, "cancel") THEN "cancel"
                 ELSE "none"
           [] state = WAITING_FOR_BILL ->
                 IF IsText(input) THEN "process_bill"
                 ELSE IF IsCommand(input, "cancel") THEN "cancel"
                 ELSE "none"

Route(state, input) ==
    CASE state = END ->
            IF IsCommand(input, "start") THEN "start"
            ELSE IF IsCommand(input, "start_meal") THEN "start_meal"
            ELSE "none"
      [] state = WAITING_FOR_PURCHASER_INFO ->
            IF IsText(input) THEN "collect_purchaser_name"
            ELSE IF IsCommand(input, "cancel") THEN "cancel"
            ELSE "none"
      [] state = WAITING_FOR_PARTICIPANTS ->
            IF IsText(input) THEN "add_participant"
            ELSE IF IsCommand(input, "remove") THEN "remove_participant"
            ELSE IF IsCommand(input, "list") THEN "list_participants"
            ELSE IF IsCommand(input, "done") THEN "finish_participants"
            ELSE IF IsCommand(input, "cancel") THEN "cancel"
            ELSE "none"
      [] state = REMOVING_PARTICIPANT ->
            IF IsText(input) THEN "confirm_participant_removal"
            ELSE IF IsCommand(input, "cancel") THEN "cancel"
            ELSE "none"
      [] state = WAITING_FOR_BILL ->
            IF IsText(input) THEN "process_bill"
            ELSE IF IsCommand(input, "cancel") THEN "cancel"
            ELSE "none"

\* an update no handler takes: nothing runs
ignored(p, input) ==
    /\ Route(conv[p], input) = "none"
    /\ turn' = Turn(p, input, "none", <<>>, "none")
    /\ UNCHANGED <<conv, session, sheet>>

----------------------------------------------------------------------------
(* Handlers *)

\* start that opens the collection of participants instead of ending
start_opening(p, input) ==
    /\ Route(conv[p], input) = "start"
    /\ conv' = [conv EXCEPT ![p] = WAITING_FOR_PARTICIPANTS]
    /\ turn' = Turn(p, input, "start", <<Reply("welcome", <<>>, <<>>)>>, "none")
    /\ UNCHANGED <<session, sheet>>

\* start that also resets the participants and the purchaser
start_clearing(p, input) ==
    /\ Route(conv[p], input) = "start"
    /\ conv' = [conv EXCEPT ![p] = END]
    /\ current_meal_participants' = <<>>
    /\ current_meal_purchaser' = [name |-> <<>>]
    /\ turn' = Turn(p, input, "start", <<Reply("welcome", <<>>, <<>>)>>, "none")
    /\ UNCHANGED <<current_meal_total_bill, current_meal_date, sheet>>

start(p, input) ==
    /\ Route(conv[p], input) = "start"
    /\ conv' = [conv EXCEPT ![p] = END]
    /\ turn' = Turn(p, input, "start", <<Reply("welcome", <<>>, <<>>)>>, "none")
    /\ UNCHANGED <<session, sheet>>

\* start_meal without the clear() of the participants
start_meal_keeping(p, input, now) ==
    /\ Route(conv[p], input) = "start_meal"
    /\ current_meal_total_bill' = 0
    /\ current_meal_date' = now
    /\ current_meal_purchaser' = [name |-> <<>>]
    /\ conv' = [conv EXCEPT ![p] = WAITING_FOR_PURCHASER_INFO]
    /\ turn' = Turn(p, input, "start_meal",
                    <<Reply("ask_purchaser", <<>>, <<>>)>>, "none")
    /\ UNCHANGED <<current_meal_participants, sheet>>

\* start_meal that takes the meal record for its peer: it ends every other
\* peer's conversation
start_meal_exclusive(p, input, now) ==
    /\ Route(conv[p], input) = "start_meal"
    /\ current_meal_participants' = <<>>
    /\ current_meal_total_bill' = 0
    /\ current_meal_date' = now
    /\ current_meal_purchaser' = [name |-> <<>>]
    /\ conv' = [q \in Peers |-> IF q = p THEN WAITING_FOR_PURCHASER_INFO ELSE END]
    /\ turn' = Turn(p, input, "start_meal",
                    <<Reply("ask_purchaser", <<>>, <<>>)>>, "none")
    /\ UNCHANGED sheet

start_meal(p, input, now) ==
    /\ Route(conv[p], input) = "start_meal"
    /\ current_meal_participants' = <<>>
    /\ current_meal_total_bill' = 0
    /\ current_meal_date' = now
    /\ current_meal_purchaser' = [name |-> <<>>]
    /\ conv' = [conv EXCEPT ![p] = WAITING_FOR_PURCHASER_INFO]
    /\ turn' = Turn(p, input, "start_meal",
                    <<Reply("ask_purchaser", <<>>, <<>>)>>, "none")
    /\ UNCHANGED sheet

collect_purchaser_name(p, input) ==
    /\ Route(conv[p], input) = "collect_purchaser_name"
    /\ current_meal_purchaser' =
           [current_meal_purchaser EXCEPT !.name = Strip(TextOf(input))]
    /\ conv' = [conv EXCEPT ![p] = WAITING_FOR_PARTICIPANTS]
    /\ turn' = Turn(p, input, "collect_purchaser_name",
                    <<Reply("thanks", Strip(TextOf(input)), <<>>)>>, "none")
    /\ UNCHANGED <<current_meal_participants, current_meal_total_bill,
                   current_meal_date, sheet>>

\* the check made on the names as typed: participant_name in participants
IsDuplicateCaseSensitive(d, participant_name) ==
    \E i \in 1..Len(d) : NameOf(d[i]) = participant_name

\* the check with only the stored names lower-cased
IsDuplicateLowerKeysOnly(d, participant_name) ==
    \E i \in 1..Len(d) : Lower(NameOf(d[i])) = participant_name

\* participant_name.lower() in [name.lower() for name in participants]
IsDuplicate(d, participant_name) ==
    \E i \in 1..Len(d) : Lower(NameOf(d[i])) = Lower(participant_name)

add_participant(p, input) ==
    /\ Route(conv[p], input) = "add_participant"
    /\ LET participant_name == Strip(TextOf(input)) IN
       IF IsDuplicate(current_meal_participants, participant_name)
       THEN /\ turn' = Turn(p, input, "add_participant",
                            <<Reply("duplicate", participant_name, <<>>)>>, "none")
            /\ UNCHANGED current_meal_participants
       ELSE /\ current_meal_participants' =
                   SetKey(current_meal_participants, participant_name, 0)
            /\ turn' = Turn(p, input, "add_participant",
                            <<Reply("added", participant_name, <<>>)>>, "none")
    /\ conv' = [conv EXCEPT ![p] = WAITING_FOR_PARTICIPANTS]
    /\ UNCHANGED <<current_meal_total_bill, current_meal_date,
                   current_meal_purchaser, sheet>>

RECURSIVE Chunk3(_)
\* [participant_list[i:i+3] for i in range(0, len(participant_list), 3)]
Chunk3(l) ==
    IF l = <<>> THEN <<>>
    ELSE IF Len(l) <= 3 THEN <<l>>
    ELSE <<SubSeq(l, 1, 3)>> \o Chunk3(SubSeq(l, 4, Len(l)))

remove_participant(p, input) ==
    /\ Route(conv[p], input) = "remove_participant"
    /\ IF current_meal_participants = <<>>
       THEN /\ turn' = Turn(p, input, "remove_participant",
                            <<Reply("nothing_to_remove", <<>>, <<>>)>>, "none")
            /\ conv' = [conv EXCEPT ![p] = WAITING_FOR_PARTICIPANTS]
       ELSE /\ turn' = Turn(p, input, "remove_participant",
                            <<Eff("reply", "select", <<>>, <<>>, <<>>, 0,
                                  Chunk3(Keys(current_meal_participants)))>>,
                            "none")
            /\ conv' = [conv EXCEPT ![p] = REMOVING_PARTICIPANT]
    /\ UNCHANGED <<session, sheet>>

\* removal with the lookup made case-insensitively
confirm_participant_removal_any_case(p, input) ==
    /\ Route(conv[p], input) = "confirm_participant_removal"
    /\ LET participant_to_remove == Strip(TextOf(input))
           kept == SelectSeq(current_meal_participants,
                             LAMBDA x : Lower(NameOf(x)) # Lower(participant_to_remove))
       IN  IF kept # current_meal_participants
           THEN /\ current_meal_participants' = kept
                /\ turn' = Turn(p, input, "confirm_participant_removal",
                                <<Reply("removed", participant_to_remove, <<>>)>>, "none")
           ELSE /\ turn' = Turn(p, input, "confirm_participant_removal",
                                <<Reply("not_found", participant_to_remove, <<>>)>>, "none")
                /\ UNCHANGED current_meal_participants
    /\ conv' = [conv EXCEPT ![p] = WAITING_FOR_PARTICIPANTS]
    /\ UNCHANGED <<current_meal_total_bill, current_meal_date,
                   current_meal_purchaser, sheet>>

confirm_participant_removal(p, input) ==
    /\ Route(conv[p], input) = "confirm_participant_removal"
    /\ LET participant_to_remove == Strip(TextOf(input)) IN
       IF HasKey(current_meal_participants, participant_to_remove)
       THEN /\ current_meal_participants' =
                   DelKey(current_meal_participants, participant_to_remove)
            /\ turn' = Turn(p, input, "confirm_participant_removal",
                            <<Reply("removed", participant_to_remove, <<>>)>>, "none")
       ELSE /\ turn' = Turn(p, input, "confirm_participant_removal",
                            <<Reply("not_found", participant_to_remove, <<>>)>>, "none")
            /\ UNCHANGED current_meal_participants
    /\ conv' = [conv EXCEPT ![p] = WAITING_FOR_PARTICIPANTS]
    /\ UNCHANGED <<current_meal_total_bill, current_meal_date,
                   current_meal_purchaser, sheet>>

list_participants(p, input) ==
    /\ Route(conv[p], input) = "list_participants"
    /\ turn' = Turn(p, input, "list_participants",
                    IF current_meal_participants = <<>>
                    THEN <<Reply("none_yet", <<>>, <<>>)>>
                    ELSE <<Reply("current", <<>>, Keys(current_meal_participants))>>,
                    "none")
    /\ conv' = [conv EXCEPT ![p] = WAITING_FOR_PARTICIPANTS]
    /\ UNCHANGED <<session, sheet>>

\* done without the check for an empty participants map
finish_participants_unchecked(p, input) ==
    /\ Route(conv[p], input) = "finish_participants"
    /\ turn' = Turn(p, input, "finish_participants",
                    <<Reply("send_bill", Join(Keys(current_meal_participants)), <<>>)>>,
                    "none")
    /\ conv' = [conv EXCEPT ![p] = WAITING_FOR_BILL]
    /\ UNCHANGED <<session, sheet>>

finish_participants(p, input) ==
    /\ Route(conv[p], input) = "finish_participants"
    /\ IF current_meal_participants = <<>>
       THEN /\ turn' = Turn(p, input, "finish_participants",
                            <<Reply("none_added", <<>>, <<>>)>>, "none")
            /\ conv' = [conv EXCEPT ![p] = WAITING_FOR_PARTICIPANTS]
       ELSE /\ turn' = Turn(p, input, "finish_participants",
                            <<Reply("send_bill",
                                    Join(Keys(current_meal_participants)), <<>>)>>,
                            "none")
            /\ conv' = [conv EXCEPT ![p] = WAITING_FOR_BILL]
    /\ UNCHANGED <<session, sheet>>

\* cancel that also clears the participants
cancel_clearing(p, input) ==
    /\ Route(conv[p], input) = "cancel"
    /\ conv' = [conv EXCEPT ![p] = END]
    /\ current_meal_participants' = <<>>
    /\ turn' = Turn(p, input, "cancel", <<Reply("cancelled", <<>>, <<>>)>>, "none")
    /\ UNCHANGED <<current_meal_total_bill, current_meal_date,
                   current_meal_purchaser, sheet>>

cancel(p, input) ==
    /\ Route(conv[p], input) = "cancel"
    /\ conv' = [conv EXCEPT ![p] = END]
    /\ turn' = Turn(p, input, "cancel", <<Reply("cancelled", <<>>, <<>>)>>, "none")
    /\ UNCHANGED <<session, sheet>>

----------------------------------------------------------------------------
(* sync_to_google_sheets.  Each call on the spreadsheet service may raise; *)
(* fail names the call that does ("none": no call raises).  A call that    *)
(* raises has changed nothing.  Every exception is caught and logged.      *)

FailPoints == {"none", "open_by_key", "worksheet", "add_worksheet", "append_header",
               "append_row"}

DataRow(total_bill, individual_share) ==
    << current_meal_date,
       current_meal_purchaser.name,
       total_bill,
       Join(Keys(current_meal_participants)),
       individual_share >>

\* the rows below the header
DataRows(rows) == SelectSeq(rows, LAMBDA r : r # HeaderRow)

\* a sync that writes the row over the last data row instead of appending
sync_overwriting(total_bill, individual_share, fail) ==
    IF fail # "none"
    THEN <<sheet, FALSE>>
    ELSE <<Sheet(TRUE, <<HeaderRow, DataRow(total_bill, individual_share)>>), TRUE>>

\* <<the worksheet after the call, whether the call went through>>
sync_to_google_sheets(total_bill, individual_share, fail) ==
    IF fail = "open_by_key" \/ fail = "worksheet"
    THEN <<sheet, FALSE>>
    ELSE LET found == SheetExists(sheet)
             added == Sheet(TRUE, <<>>)
             headed == Sheet(TRUE, <<HeaderRow>>)
         IN  IF ~found /\ fail = "add_worksheet"
             THEN <<sheet, FALSE>>
             ELSE IF ~found /\ fail = "append_header"
             THEN <<added, FALSE>>
             ELSE LET worksheet == IF found THEN sheet ELSE headed
                  IN  IF fail = "append_row"
                      THEN <<worksheet, FALSE>>
                      ELSE <<Sheet(TRUE, Append(SheetRows(worksheet),
                                                DataRow(total_bill, individual_share))),
                             TRUE>>

----------------------------------------------------------------------------
(* process_bill *)

\* the share cut to the cent below instead of rounded
IndividualShareFloor(total_bill, num_participants) == total_bill \div num_participants

\* individual_share = round(total_bill / num_participants, 2)
IndividualShare(total_bill, num_participants) == Round2(total_bill, num_participants)

\* for participant in participants: participants[participant] = individual_share
Distribute(d, individual_share) ==
    [i \in 1..Len(d) |-> Item(NameOf(d[i]), individual_share)]

\* process_bill around a sync that lets its exception out: the handler ends
\* at the failed call, without the result message and without a new state
process_bill_sync_raises(p, input, fail) ==
    /\ Route(conv[p], input) = "process_bill"
    /\ LET parsed == ParseFloat(Strip(TextOf(input)))
           total_bill == parsed[2]
           num_participants == Len(current_meal_participants)
       IN  IF ~parsed[1]
           THEN /\ turn' = Turn(p, input, "process_bill",
                                <<Reply("invalid_amount", <<>>, <<>>)>>, "none")
                /\ conv' = [conv EXCEPT ![p] = WAITING_FOR_BILL]
                /\ UNCHANGED <<session, sheet>>
           ELSE IF num_participants = 0
           THEN /\ turn' = Turn(p, input, "process_bill", <<>>, "ZeroDivisionError")
                /\ UNCHANGED <<conv, session, sheet>>
           ELSE LET individual_share == IndividualShare(total_bill, num_participants)
                    shares == Distribute(current_meal_participants, individual_share)
                    synced == sync_to_google_sheets(total_bill, individual_share, fail)
                    stored == Eff("store", "shares", <<>>, <<>>, shares, 0, <<>>)
                IN  /\ Len(DataRows(SheetRows(synced[1]))) <= MaxRows
                    /\ current_meal_participants' = shares
                    /\ sheet' = synced[1]
                    /\ IF synced[2]
                       THEN /\ turn' = Turn(p, input, "process_bill",
                                            << stored,
                                               Eff("sync", "ok", <<>>, <<>>, <<>>,
                                                   total_bill, <<>>),
                                               Eff("reply", "result", <<>>, <<>>, shares,
                                                   total_bill, <<>>) >>,
                                            "none")
                            /\ conv' = [conv EXCEPT ![p] = END]
                       ELSE /\ turn' = Turn(p, input, "process_bill",
                                            << stored,
                                               Eff("sync", "failed", <<>>, <<>>, <<>>,
                                                   total_bill, <<>>) >>,
                                            "Exception")
                            /\ UNCHANGED conv
                    /\ UNCHANGED <<current_meal_total_bill, current_meal_date,
                                   current_meal_purchaser>>

\* process_bill that sends the result message before it calls the sync
process_bill_reply_first(p, input, fail) ==
    /\ Route(conv[p], input) = "process_bill"
    /\ LET parsed == ParseFloat(Strip(TextOf(input)))
           total_bill == parsed[2]
           num_participants == Len(current_meal_participants)
       IN  IF ~parsed[1]
           THEN /\ turn' = Turn(p, input, "process_bill",
                                <<Reply("invalid_amount", <<>>, <<>>)>>, "none")
                /\ conv' = [conv EXCEPT ![p] = WAITING_FOR_BILL]
                /\ UNCHANGED <<session, sheet>>
           ELSE IF num_participants = 0
           THEN /\ turn' = Turn(p, input, "process_bill", <<>>, "ZeroDivisionError")
                /\ UNCHANGED <<conv, session, sheet>>
           ELSE LET individual_share == IndividualShare(total_bill, num_participants)
                    shares == Distribute(current_meal_participants, individual_share)
                    synced == sync_to_google_sheets(total_bill, individual_share, fail)
                IN  /\ Len(DataRows(SheetRows(synced[1]))) <= MaxRows
                    /\ current_meal_participants' = shares
                    /\ sheet' = synced[1]
                    /\ turn' = Turn(p, input, "process_bill",
                                    << Eff("store", "shares", <<>>, <<>>, shares, 0, <<>>),
                                       Eff("reply", "result", <<>>, <<>>, shares,
                                           total_bill, <<>>),
                                       Eff("sync", IF synced[2] THEN "ok" ELSE "failed",
                                           <<>>, <<>>, <<>>, total_bill, <<>>) >>,
                                    "none")
                    /\ conv' = [conv EXCEPT ![p] = END]
                    /\ UNCHANGED <<current_meal_total_bill, current_meal_date,
                                   current_meal_purchaser>>

process_bill(p, input, fail) ==
    /\ Route(conv[p], input) = "process_bill"
    /\ LET parsed == ParseFloat(Strip(TextOf(input)))
           total_bill == parsed[2]
           num_participants == Len(current_meal_participants)
       IN  IF ~parsed[1]
           THEN \* except ValueError
                /\ turn' = Turn(p, input, "process_bill",
                                <<Reply("invalid_amount", <<>>, <<>>)>>, "none")
                /\ conv' = [conv EXCEPT ![p] = WAITING_FOR_BILL]
                /\ UNCHANGED <<session, sheet>>
           ELSE IF num_participants = 0
           THEN \* ZeroDivisionError is not caught: the handler ends without a
                \* reply and the ConversationHandler keeps the state
                /\ turn' = Turn(p, input, "process_bill", <<>>, "ZeroDivisionError")
                /\ UNCHANGED <<conv, session, sheet>>
           ELSE LET individual_share == IndividualShare(total_bill, num_participants)
                    shares == Distribute(current_meal_participants, individual_share)
                    synced == sync_to_google_sheets(total_bill, individual_share, fail)
                IN  /\ Len(DataRows(SheetRows(synced[1]))) <= MaxRows
                    /\ current_meal_participants' = shares
                    /\ sheet' = synced[1]
                    /\ turn' = Turn(p, input, "process_bill",
                                    << Eff("store", "shares", <<>>, <<>>, shares, 0, <<>>),
                                       Eff("sync", IF synced[2] THEN "ok" ELSE "failed",
                                           <<>>, <<>>, <<>>, total_bill, <<>>),
                                       Eff("reply", "result", <<>>, <<>>, shares,
                                           total_bill, <<>>) >>,
                                    "none")
                    /\ conv' = [conv EXCEPT ![p] = END]
                    /\ UNCHANGED <<current_meal_total_bill, current_meal_date,
                                   current_meal_purchaser>>

----------------------------------------------------------------------------
(* One update of peer p, handled to the end before the next is taken *)

Step(p, names, bills) ==
    \/ \E c \in Commands : ignored(p, Cmd(c))
    \/ \E t \in names : ignored(p, Text(t))
    \/ \E c \in Commands : start(p, Cmd(c))
    \/ \E c \in Commands, now \in Days : start_meal(p, Cmd(c), now)
    \/ \E t \in PurchaserTexts : collect_purchaser_name(p, Text(t))
    \/ \E t \in names : add_participant(p, Text(t))
    \/ \E c \in Commands : remove_participant(p, Cmd(c))
    \/ \E t \in names : confirm_participant_removal(p, Text(t))
    \/ \E c \in Commands : list_participants(p, Cmd(c))
    \/ \E c \in Commands : finish_participants(p, Cmd(c))
    \/ \E t \in bills, fail \in FailPoints : process_bill(p, Text(t), fail)
    \/ \E c \in Commands : cancel(p, Cmd(c))

\* a single conversation peer
Next == Step(1, NameTexts, BillTexts)

Spec == Init /\ [][Next]_vars

\* a single conversation peer and a meal of up to three
NextSplit == Step(1, SplitNameTexts, SplitBillTexts)

SpecSplit == Init /\ [][NextSplit]_vars

\* two conversation peers served by the one bot object; the updates are
\* handled one at a time, each to its end
PeerNameTexts == { <<"A">>, <<"B">> }
PeerBillTexts == { <<"2">>, <<"A">> }

NextPeers == \E p \in Peers : Step(p, PeerNameTexts, PeerBillTexts)

SpecPeers == Init /\ [][NextPeers]_vars

----------------------------------------------------------------------------
(* Reading the update handled last *)

\* the turn that ends in the primed state was handled by h
Handled(h) == HandlerOf(turn') = h
LastReply(t) == EffectsOf(t)[Len(EffectsOf(t))]
Replied(t, kind) ==
    /\ EffectsOf(t) # <<>>
    /\ EffOf(LastReply(t)) = "reply"
    /\ KindOf(LastReply(t)) = kind
SyncCalls(t) == SelectSeq(EffectsOf(t), LAMBDA x : EffOf(x) = "sync")
\* process_bill took the bill: it split it and ended the conversation
Accepted(t) == HandlerOf(t) = "process_bill" /\ Replied(t, "result")

----------------------------------------------------------------------------
(* C1: in every reachable state of a single conversation no two distinct  *)
(* keys of the participants map are equal when compared case-insensitively *)
C1_NoCaseInsensitiveDuplicates ==
    \A i, j \in 1..Len(current_meal_participants) :
        i # j => Lower(NameOf(current_meal_participants[i]))
                 # Lower(NameOf(current_meal_participants[j]))

\* two participants are present and a name differing from a key only in
\* case and padding has just been turned away
C1_Witness ==
    /\ Len(current_meal_participants) = 2
    /\ HandlerOf(turn) = "add_participant"
    /\ Replied(turn, "duplicate")
    /\ ~HasKey(current_meal_participants, EffName(LastReply(turn)))

(* C2: for a single peer, whenever the conversation awaits the bill the    *)
(* participants map is non-empty, and process_bill has never divided by 0  *)
C2_BillAwaitedHasParticipants ==
    /\ conv[1] = WAITING_FOR_BILL => current_meal_participants # <<>>
    /\ RaisedOf(turn) # "ZeroDivisionError"

\* the bill is awaited and an input has been taken in that state
C2_Witness ==
    /\ conv[1] = WAITING_FOR_BILL
    /\ HandlerOf(turn) = "process_bill"
    /\ Len(current_meal_participants) = 1

(* C3: done with an empty participants map stays in the collecting state,  *)
(* emits the rejection and changes nothing of the meal record or the sheet *)
C3_DoneEmptyStays ==
    [][ (Handled("finish_participants") /\ current_meal_participants = <<>>)
        => /\ conv[PeerOf(turn')] = WAITING_FOR_PARTICIPANTS
           /\ conv' = conv
           /\ session' = session
           /\ sheet' = sheet
           /\ EffectsOf(turn') = <<Reply("none_added", <<>>, <<>>)>> ]_vars

C3_Witness ==
    /\ HandlerOf(turn) = "finish_participants"
    /\ Replied(turn, "none_added")
    /\ conv[1] = WAITING_FOR_PARTICIPANTS
    /\ current_meal_participants = <<>>

(* C4: a text whose trimmed, lower-cased form equals the lower-cased form  *)
(* of an existing name leaves the participants map as it is, is answered   *)
(* with the duplicate rejection and stays in the collecting state          *)
C4_DuplicateRejected ==
    [][ ( /\ Handled("add_participant")
          /\ \E i \in 1..Len(current_meal_participants) :
                 Lower(Strip(TextOf(InputOf(turn'))))
                 = Lower(NameOf(current_meal_participants[i])) )
        => /\ current_meal_participants' = current_meal_participants
           /\ EffectsOf(turn')
              = <<Reply("duplicate", Strip(TextOf(InputOf(turn'))), <<>>)>>
           /\ conv[PeerOf(turn')] = WAITING_FOR_PARTICIPANTS
           /\ conv' = conv ]_vars

\* "a " has been turned away while "A" is a participant
C4_Witness ==
    /\ HandlerOf(turn) = "add_participant"
    /\ Replied(turn, "duplicate")
    /\ TextOf(InputOf(turn)) # EffName(LastReply(turn))
    /\ ~HasKey(current_meal_participants, EffName(LastReply(turn)))
    /\ current_meal_participants # <<>>

(* C5: after process_bill takes a bill for n >= 1 participants, every      *)
(* stored share is the bill divided by n and rounded once to the nearest   *)
(* cent, all shares are equal, and the names and their order are as before *)
C5_SplitCorrect ==
    [][ Accepted(turn')
        => LET n == Len(current_meal_participants)
               total_bill == EffTotal(LastReply(turn'))
           IN  /\ n >= 1
               /\ Keys(current_meal_participants') = Keys(current_meal_participants)
               /\ \A i \in 1..n :
                      LET share == ShareOf(current_meal_participants'[i])
                          diff == n * share - total_bill
                      IN  /\ 2 * diff <= n
                          /\ -2 * diff <= n
                          /\ share = ShareOf(current_meal_participants'[1]) ]_vars

\* 2.00 split among three: 0.67 each, rounded up
C5_Witness ==
    /\ Accepted(turn)
    /\ Len(current_meal_participants) = 3
    /\ EffTotal(LastReply(turn)) = 200
    /\ \A i \in 1..3 : ShareOf(current_meal_participants[i]) = 67

\* the bill texts of the model that are no numbers
NonNumeric(text) == text \in { <<"A">>, <<"1", "-">> }

(* C6: in the bill-awaiting state a text that is no number keeps the       *)
(* state, the meal record and the worksheet, makes no ledger call and is   *)
(* answered with the invalid-amount message; the state after it is one in  *)
(* which a bill is still awaited from a non-empty participants map         *)
C6_InvalidBillRetry ==
    [][ (Handled("process_bill") /\ NonNumeric(TextOf(InputOf(turn'))))
        => /\ conv[PeerOf(turn')] = WAITING_FOR_BILL
           /\ conv' = conv
           /\ session' = session
           /\ sheet' = sheet
           /\ SyncCalls(turn') = <<>>
           /\ EffectsOf(turn') = <<Reply("invalid_amount", <<>>, <<>>)>>
           /\ RaisedOf(turn') = "none"
           /\ current_meal_participants' # <<>> ]_vars

\* "1-" has been turned away and the bill is still awaited
C6_Witness ==
    /\ HandlerOf(turn) = "process_bill"
    /\ TextOf(InputOf(turn)) = <<"1", "-">>
    /\ Replied(turn, "invalid_amount")
    /\ conv[1] = WAITING_FOR_BILL

\* d without its i-th entry
Without(d, i) == SubSeq(d, 1, i - 1) \o SubSeq(d, i + 1, Len(d))

(* C7 as stated: only a text exactly equal to a name removes, any other    *)
(* text leaves the map unchanged and is answered not-found                 *)
C7_RemovalExactText ==
    [][ Handled("confirm_participant_removal")
        => /\ conv'[PeerOf(turn')] = WAITING_FOR_PARTICIPANTS
           /\ IF HasKey(current_meal_participants, TextOf(InputOf(turn')))
              THEN Replied(turn', "removed")
              ELSE /\ current_meal_participants' = current_meal_participants
                   /\ Replied(turn', "not_found") ]_vars

(* C7 amended: a text whose trimmed form is exactly, case-sensitively, a   *)
(* participant name deletes that participant and no other, keeping the     *)
(* order of the rest; any other text, the name in another case included,   *)
(* leaves the map unchanged and is answered not-found; either way the next *)
(* state is the collecting state                                           *)
C7_RemovalExactTrimmed ==
    [][ Handled("confirm_participant_removal")
        => LET t == Strip(TextOf(InputOf(turn')))
               hits == {i \in 1..Len(current_meal_participants) :
                           NameOf(current_meal_participants[i]) = t}
           IN  /\ conv[PeerOf(turn')] = REMOVING_PARTICIPANT
               /\ conv'[PeerOf(turn')] = WAITING_FOR_PARTICIPANTS
               /\ Cardinality(hits) <= 1
               /\ \A i \in hits :
                      /\ current_meal_participants'
                         = Without(current_meal_participants, i)
                      /\ EffectsOf(turn') = <<Reply("removed", t, <<>>)>>
               /\ hits = {} =>
                      /\ current_meal_participants' = current_meal_participants
                      /\ EffectsOf(turn') = <<Reply("not_found", t, <<>>)>> ]_vars

\* "a" was not found while "A" is a participant
C7_Witness ==
    /\ HandlerOf(turn) = "confirm_participant_removal"
    /\ Replied(turn, "not_found")
    /\ \E i \in 1..Len(current_meal_participants) :
           /\ NameOf(current_meal_participants[i]) # EffName(LastReply(turn))
           /\ Lower(NameOf(current_meal_participants[i]))
              = Lower(EffName(LastReply(turn)))

(* C8 as stated: right after cancel the participants map is empty          *)
C8_CancelEmptiesParticipants ==
    HandlerOf(turn) = "cancel" => current_meal_participants = <<>>

(* C8 amended: cancel ends the conversation and leaves the participants    *)
(* map and the rest of the meal record as they were; the record is         *)
(* discarded by the next start_meal                                        *)
C8_CancelKeepsRecord ==
    [][ /\ Handled("cancel")
           => /\ conv[PeerOf(turn')] # END
              /\ conv' = [conv EXCEPT ![PeerOf(turn')] = END]
              /\ session' = session
              /\ sheet' = sheet
              /\ EffectsOf(turn') = <<Reply("cancelled", <<>>, <<>>)>>
        /\ (HandlerOf(turn) = "cancel" /\ current_meal_participants # <<>>
            /\ current_meal_participants' # current_meal_participants)
           => /\ Handled("start_meal")
              /\ current_meal_participants' = <<>> ]_vars

C8_Witness ==
    /\ HandlerOf(turn) = "cancel"
    /\ conv[1] = END
    /\ Len(current_meal_participants) = 2

(* C9: whatever came before, start_meal leaves an empty participants map,  *)
(* total bill 0, a purchaser record holding only an empty name, and the    *)
(* conversation awaiting the purchaser                                     *)
C9_StartMealResets ==
    [][ Handled("start_meal")
        => /\ current_meal_participants' = <<>>
           /\ current_meal_total_bill' = 0
           /\ current_meal_purchaser' = [name |-> <<>>]
           /\ conv' = [conv EXCEPT ![PeerOf(turn')] = WAITING_FOR_PURCHASER_INFO] ]_vars

\* start_meal handled after a split that was recorded
C9_Witness ==
    /\ HandlerOf(turn) = "start_meal"
    /\ DataRows(SheetRows(sheet)) # <<>>
    /\ current_meal_participants = <<>>
    /\ current_meal_purchaser.name = <<>>
    /\ conv[1] = WAITING_FOR_PURCHASER_INFO

C11_SyncFailureIsolated ==
    [][ ( /\ Handled("process_bill")
          /\ SyncCalls(turn') # <<>>
          /\ KindOf(SyncCalls(turn')[1]) = "failed" )
        => LET total_bill == ParseFloat(Strip(TextOf(InputOf(turn'))))[2]
               n == Len(current_meal_participants)
               shares == Distribute(current_meal_participants,
                                    IndividualShare(total_bill, n))
           IN  /\ current_meal_participants' = shares
               /\ Len(SyncCalls(turn')) = 1
               /\ LastReply(turn')
                  = Eff("reply", "result", <<>>, <<>>, shares, total_bill, <<>>)
               /\ Len(SelectSeq(EffectsOf(turn'), LAMBDA x : EffOf(x) = "reply")) = 1
               /\ RaisedOf(turn') = "none"
               /\ conv' = [conv EXCEPT ![PeerOf(turn')] = END] ]_vars

\* a bill was split although the worksheet could not be created: the
\* conversation has ended, the shares are stored, no row was written
C11_Witness ==
    /\ Accepted(turn)
    /\ KindOf(SyncCalls(turn)[1]) = "failed"
    /\ conv[1] = END
    /\ ~SheetExists(sheet)
    /\ ShareOf(current_meal_participants[1]) = 200

(* C12 as stated: the shares are set by a split exactly when the record's  *)
(* total bill holds the amount that was split; right after process_bill    *)
(* has taken a bill, current_meal_total_bill is that bill                  *)
C12_TotalBillSetWithShares ==
    /\ (\E i \in 1..Len(current_meal_participants) :
            ShareOf(current_meal_participants[i]) # 0)
       <=> current_meal_total_bill # 0
    /\ Accepted(turn) => current_meal_total_bill = EffTotal(LastReply(turn))

(* C13 as stated: every bill that process_bill takes, and every bill       *)
(* written to the worksheet, is a non-negative number                      *)
C13_AcceptedBillNonNegative ==
    /\ Accepted(turn) => EffTotal(LastReply(turn)) >= 0
    /\ \A i \in 1..Len(DataRows(SheetRows(sheet))) :
           DataRows(SheetRows(sheet))[i][3] >= 0

(* C14: while a peer has no conversation (never started, or ended by a     *)
(* split or a cancel), each of its inputs other than start_meal leaves it  *)
(* without a conversation and leaves the meal record and the worksheet     *)
(* unchanged; start only sends the greeting, any other such input runs no  *)
(* handler; a conversation is only ever opened by start_meal               *)
C14_IdleUntilStartMeal ==
    [][ LET p == PeerOf(turn')
            input == InputOf(turn')
        IN  /\ (conv[p] = END /\ ~IsCommand(input, "start_meal"))
               => /\ conv' = conv
                  /\ session' = session
                  /\ sheet' = sheet
                  /\ IF IsCommand(input, "start")
                     THEN /\ HandlerOf(turn') = "start"
                          /\ EffectsOf(turn') = <<Reply("welcome", <<>>, <<>>)>>
                     ELSE /\ HandlerOf(turn') = "none"
                          /\ EffectsOf(turn') = <<>>
            /\ (conv[p] = END /\ conv'[p] # END)
               => /\ Handled("start_meal")
                  /\ conv'[p] = WAITING_FOR_PURCHASER_INFO ]_vars

\* start was greeted after a session that a cancel ended: the peer is
\* without a conversation and the participants of that session are kept
C14_Witness ==
    /\ HandlerOf(turn) = "start"
    /\ Replied(turn, "welcome")
    /\ conv[1] = END
    /\ Len(current_meal_participants) = 2
    /\ current_meal_purchaser.name = <<"S">>

\* the commands the state has a handler for, cancel aside
Listed(state, c) ==
    state = WAITING_FOR_PARTICIPANTS /\ c \in {"remove", "list", "done"}

(* C15: inside a conversation a command other than cancel that the state   *)
(* has no handler for runs no handler, sends nothing, and leaves the       *)
(* conversation state, the meal record and the worksheet unchanged         *)
C15_UnlistedCommandIgnored ==
    [][ LET p == PeerOf(turn')
            input == InputOf(turn')
        IN  ( /\ conv[p] # END
              /\ ~IsText(input)
              /\ ~IsCommand(input, "cancel")
              /\ ~Listed(conv[p], TextOf(input)) )
            => /\ HandlerOf(turn') = "none"
               /\ EffectsOf(turn') = <<>>
               /\ conv' = conv
               /\ session' = session
               /\ sheet' = sheet ]_vars

\* start_meal sent while the bill is awaited: no handler ran and the
\* participants are still there
C15_Witness ==
    /\ HandlerOf(turn) = "none"
    /\ IsCommand(InputOf(turn), "start_meal")
    /\ conv[1] = WAITING_FOR_BILL
    /\ Len(current_meal_participants) = 2

(* C16: with two peers, an update changes the conversation state of its    *)
(* sender only, while the meal record is the one both act on: a start_meal *)
(* of one peer empties the participants and resets the purchaser whatever  *)
(* the other peer has entered, leaves the other peer's conversation state  *)
(* as it is, and sends its one message to its sender                       *)
C16_PeersShareOneRecord ==
    [][ LET q == PeerOf(turn')
        IN  /\ \A p \in Peers \ {q} : conv'[p] = conv[p]
            /\ Handled("start_meal")
               => /\ current_meal_participants' = <<>>
                  /\ current_meal_purchaser' = [name |-> <<>>]
                  /\ current_meal_total_bill' = 0
                  /\ conv'[q] = WAITING_FOR_PURCHASER_INFO
                  /\ EffectsOf(turn') = <<Reply("ask_purchaser", <<>>, <<>>)>> ]_vars

\* peer 1 finished its participants and awaits the bill; peer 2's
\* start_meal has just emptied them
C16_Witness ==
    /\ HandlerOf(turn) = "start_meal"
    /\ PeerOf(turn) = 2
    /\ conv[1] = WAITING_FOR_BILL
    /\ conv[2] = WAITING_FOR_PURCHASER_INFO
    /\ current_meal_participants = <<>>
    /\ current_meal_purchaser.name = <<>>

(* C17 as stated: with two peers, a numeric bill sent by a peer whose      *)
(* conversation awaits the bill is split over at least one participant:    *)
(* process_bill raises no ZeroDivisionError, sends the result message and  *)
(* ends that peer's conversation                                           *)
C17_NumericBillAlwaysSplit ==
    [][ ( /\ Handled("process_bill")
          /\ ParseFloat(Strip(TextOf(InputOf(turn'))))[1] )
        => /\ conv[PeerOf(turn')] = WAITING_FOR_BILL
           /\ Len(current_meal_participants) >= 1
           /\ RaisedOf(turn') = "none"
           /\ Replied(turn', "result")
           /\ conv'[PeerOf(turn')] = END ]_vars

(* C18 as stated: whatever sync attempts were made, failed ones included,  *)
(* a worksheet that exists and holds a data row has the header as its      *)
(* first row, and the header is in it once                                 *)
C18_HeaderFirstAndOnce ==
    LET rows == SheetRows(sheet)
    IN  /\ (SheetExists(sheet) /\ DataRows(rows) # <<>>) => rows[1] = HeaderRow
        /\ Len(rows) - Len(DataRows(rows)) <= 1

\* the i-th thing the turn did is a call of kind e
IsEff(t, i, e) == EffOf(EffectsOf(t)[i]) = e

(* C19: in a turn of process_bill on a valid bill the shares are stored,   *)
(* then the sync is called and returns, then the result message is sent:   *)
(* a result message has the sync call before it, a sync call has the       *)
(* storing of the shares before it and the result message after it         *)
C19_StoreSyncReplyOrder ==
    [][ LET n == Len(EffectsOf(turn'))
        IN  /\ \A j \in 1..n :
                   (IsEff(turn', j, "reply") /\ KindOf(EffectsOf(turn')[j]) = "result")
                   => \E i \in 1..(j - 1) : IsEff(turn', i, "sync")
            /\ \A i \in 1..n :
                   IsEff(turn', i, "sync")
                   => /\ \E k \in 1..(i - 1) :
                             /\ IsEff(turn', k, "store")
                             /\ EffShares(EffectsOf(turn')[k])
                                = current_meal_participants'
                      /\ \E j \in (i + 1)..n :
                             /\ IsEff(turn', j, "reply")
                             /\ KindOf(EffectsOf(turn')[j]) = "result"
            /\ ( /\ Handled("process_bill")
                 /\ ParseFloat(Strip(TextOf(InputOf(turn'))))[1]
                 /\ current_meal_participants # <<>> )
               => /\ n = 3
                  /\ IsEff(turn', 1, "store")
                  /\ IsEff(turn', 2, "sync")
                  /\ Replied(turn', "result") ]_vars

\* a bill for two was stored, written to the worksheet below the header,
\* and then answered
C19_Witness ==
    /\ Accepted(turn)
    /\ Len(EffectsOf(turn)) = 3
    /\ IsEff(turn, 2, "sync")
    /\ KindOf(EffectsOf(turn)[2]) = "ok"
    /\ Len(current_meal_participants) = 2
    /\ SheetRows(sheet)[1] = HeaderRow
    /\ Len(SheetRows(sheet)) = 2

(* C20: for a single peer, a split that was written to the worksheet ends  *)
(* the conversation; from then on, as long as there is no conversation,    *)
(* no update other than start_meal changes the participants, their shares  *)
(* or the purchaser, and there is still no conversation after it;          *)
(* start_meal replaces the record by an empty one                          *)
C20_ClosedRecordKept ==
    [][ /\ ( /\ Accepted(turn')
             /\ KindOf(SyncCalls(turn')[1]) = "ok" )
           => conv'[1] = END
        /\ (conv[1] = END /\ ~Handled("start_meal"))
           => /\ conv'[1] = END
              /\ current_meal_participants' = current_meal_participants
              /\ current_meal_purchaser' = current_meal_purchaser
        /\ (conv[1] = END /\ Handled("start_meal"))
           => /\ current_meal_participants' = <<>>
              /\ current_meal_purchaser' = [name |-> <<>>] ]_vars

\* a name sent after a split that was written to the worksheet: no handler
\* took it and the shares of the split are still in the record
C20_Witness ==
    /\ HandlerOf(turn) = "none"
    /\ IsText(InputOf(turn))
    /\ conv[1] = END
    /\ Len(DataRows(SheetRows(sheet))) = 1
    /\ Len(current_meal_participants) = 2
    /\ \A i \in 1..2 : ShareOf(current_meal_participants[i]) = 100
    /\ current_meal_purchaser.name = <<"S">>

====
